---- MODULE Spec2Model ----
(***************************************************************************)
(* Model of the sentiment reply bot: the category threshold tables and     *)
(* classifiers, the response composers, and the mention handlers of the    *)
(* repository's successive versions.                                       *)
(*                                                                         *)
(* Versions of the code (the files hold several consecutive revisions):    *)
(*   "P0"  src/unnamed/part_000            classifier over texts, handler   *)
(*         without try/catch                                               *)
(*   "I1"  src/index.ts 1-167              table ending at 0.25, handler    *)
(*         listing raw records                                             *)
(*   "I2"  src/index.ts 169-315            table starting at -Infinity,     *)
(*         handler using getUserPosts                                      *)
(*   "I3"  src/index.ts 317-399            handler importing ./sentiment    *)
(*   "S1"  src/unnamed/part_001 1-139      nine-way table, fixed responses  *)
(*   "S2"  src/unnamed/part_001 141-501    branching classifier, random     *)
(*         variant pools                                                   *)
(*                                                                         *)
(* Numbers: a score is an integer number of grid units; one hundredth is   *)
(* SubSteps grid units, so every threshold of the code lies on the grid    *)
(* and two-decimal rounding is a real conversion.                          *)
(***************************************************************************)
EXTENDS Integers, Sequences, FiniteSets, TLC

VARIABLES
    \* ---- the running bot (specification Spec) ----
    version,      \* which revision of the handler runs: "P0","I1","I2","I3S1","I3S2"
    mainpc,       \* position of module initialisation / main()
    alive,        \* FALSE once an unhandled rejection has ended the process
    categories,   \* the SENTIMENT_CATEGORIES table in memory
    pc,           \* pc[m]: position of the handler of mention m
    user,         \* user[m]: the handler's local const user
    posts,        \* posts[m]: the handler's local const posts (comparative per text)
    localScore,   \* localScore[m]: the handler's local const score
    userSentiment,\* userSentiment[m]: the handler's local const userSentiment
    sent,         \* sent[m]: the reply attempts made for mention m, in order
    \* ---- one call of the core functions (specification SpecCore) ----
    cphase,       \* "off", "input", "classified", "composed"
    cscore,       \* the score argument
    ctexts,       \* the texts argument (comparative per text)
    chandle,      \* the username argument
    ctable,       \* name of the classifier variant applied
    cout          \* the value returned

vars == <<version, mainpc, alive, categories, pc, user, posts, localScore, userSentiment,
          sent, cphase, cscore, ctexts, chandle, ctable, cout>>

botVars == <<version, mainpc, alive, categories, pc, user, posts, localScore, userSentiment,
             sent>>
coreVars == <<cphase, cscore, ctexts, chandle, ctable, cout>>

-----------------------------------------------------------------------------
(* Bounds of the model *)

\* grid units per hundredth
SubSteps == 3
\* scores are drawn densely from -MaxScoreTenths/10 .. +MaxScoreTenths/10
MaxScoreTenths == 35
\* Math.random() is drawn from RandGrid values spread over [0, 1), the least
\* 0 and the greatest (RandDenominator-1)/RandDenominator
RandGrid == 4
RandDenominator == 1000
\* mention events handled in one run
MaxMentions == 2
\* posts returned by one fetch
MaxPosts == 2
\* significant binary digits of a number (the doubles have 53)
MantissaBits == 9
\* texts given to one call of the aggregator alone
MaxTexts == 3

\* h hundredths as grid units
H(h) == h * SubSteps

Scores == (-(MaxScoreTenths * 10 * SubSteps)) .. (MaxScoreTenths * 10 * SubSteps)
           \cup {H(1000), H(-1000), H(1234), H(-1050)}

-----------------------------------------------------------------------------
(* Thresholds: a finite number of grid units, or +Infinity / -Infinity *)

Fin(h) == [k |-> "fin", v |-> H(h)]
PosInfinity == [k |-> "+inf", v |-> 0]
NegInfinity == [k |-> "-inf", v |-> 0]

\* score <= threshold, for a finite score
Leq(score, t) ==
    CASE t.k = "+inf" -> TRUE
      [] t.k = "-inf" -> FALSE
      [] OTHER        -> score <= t.v

\* threshold a < threshold b
ThresholdLess(a, b) ==
    CASE a.k = "-inf" -> b.k # "-inf"
      [] a.k = "+inf" -> FALSE
      [] OTHER        -> \/ b.k = "+inf"
                         \/ b.k = "fin" /\ a.v < b.v

Entry(t, l) == [threshold |-> t, label |-> l]

SENTIMENT_CATEGORIES_I1 ==
    << Entry(Fin(-300), "very mean"),
       Entry(Fin(-25),  "mean"),
       Entry(Fin(-10),  "neutral"),
       Entry(Fin(10),   "nice"),
       Entry(Fin(25),   "very nice") >>

SENTIMENT_CATEGORIES_I2 ==
    << Entry(NegInfinity, "very mean"),
       Entry(Fin(-25),    "mean"),
       Entry(Fin(-10),    "neutral"),
       Entry(Fin(10),     "nice"),
       Entry(Fin(25),     "very nice") >>

SENTIMENT_CATEGORIES_P0 ==
    << Entry(Fin(-50),    "very mean"),
       Entry(Fin(0),      "mean"),
       Entry(Fin(10),     "neutral"),
       Entry(Fin(50),     "nice"),
       Entry(PosInfinity, "very nice") >>

SENTIMENT_CATEGORIES_S1 ==
    << Entry(Fin(-300),   "extremely negative"),
       Entry(Fin(-150),   "very negative"),
       Entry(Fin(-50),    "negative"),
       Entry(Fin(-10),    "slightly negative"),
       Entry(Fin(10),     "neutral"),
       Entry(Fin(50),     "slightly positive"),
       Entry(Fin(150),    "positive"),
       Entry(Fin(300),    "very positive"),
       Entry(PosInfinity, "extremely positive") >>

TableNames == {"I1", "I2", "P0", "S1"}

TableOf(name) ==
    CASE name = "I1" -> SENTIMENT_CATEGORIES_I1
      [] name = "I2" -> SENTIMENT_CATEGORIES_I2
      [] name = "P0" -> SENTIMENT_CATEGORIES_P0
      [] name = "S1" -> SENTIMENT_CATEGORIES_S1

\* type SentimentCategory of the branching classifier
SentimentCategory_S2 ==
    << "extremely negative", "very negative", "negative", "slightly negative",
       "neutral",
       "slightly positive", "positive", "very positive", "extremely positive" >>

Range(s) == {s[i] : i \in 1..Len(s)}
LabelsOfTable(table) == {table[i].label : i \in 1..Len(table)}

-----------------------------------------------------------------------------
(* CategoryClassifier *)

\* the predicate with < in place of <=
MatchesEntry_Strict(entry, score) ==
    \/ entry.threshold.k = "+inf"
    \/ entry.threshold.k = "fin" /\ score < entry.threshold.v

\* the predicate ([threshold]) => score <= threshold
MatchesEntry(entry, score) == Leq(score, entry.threshold)

\* Array.prototype.find over the table, from index i on: the index of the first
\* entry the predicate accepts; 0 stands for undefined.
RECURSIVE FindFrom(_, _, _)
FindFrom(table, score, i) ==
    IF i > Len(table) THEN 0
    ELSE IF MatchesEntry(table[i], score) THEN i
    ELSE FindFrom(table, score, i + 1)

FindIndex(table, score) == FindFrom(table, score, 1)

\* the classifier clamping to the last category when find returns undefined
analyzeSentiment_ClampLast(table, score) ==
    LET i == FindIndex(table, score)
    IN  IF i = 0 THEN table[Len(table)].label ELSE table[i].label

\* SENTIMENT_CATEGORIES.find(([threshold]) => score <= threshold)?.[1] ?? 'neutral'
analyzeSentiment(table, score) ==
    LET i == FindIndex(table, score)
    IN  IF i = 0 THEN "neutral" ELSE table[i].label

\* the branching classifier of S2
analyzeSentiment_S2(score) ==
    IF score = 0 THEN "neutral"
    ELSE IF score < 0
         THEN IF score <= H(-300) THEN "extremely negative"
              ELSE IF score <= H(-150) THEN "very negative"
              ELSE IF score <= H(-50) THEN "negative"
              ELSE "slightly negative"
         ELSE IF score <= H(50) THEN "slightly positive"
              ELSE IF score <= H(150) THEN "positive"
              ELSE IF score <= H(300) THEN "very positive"
              ELSE "extremely positive"

-----------------------------------------------------------------------------
(* ResponseComposer: emoji *)

\* getSentimentEmoji of S1
getSentimentEmoji_S1(score) ==
    IF score <= H(-300) THEN "cursing"
    ELSE IF score <= H(-150) THEN "pouting"
    ELSE IF score <= H(-50) THEN "angry"
    ELSE IF score <= H(-10) THEN "confused"
    ELSE IF score <= H(10) THEN "neutral_face"
    ELSE IF score <= H(50) THEN "slight_smile"
    ELSE IF score <= H(150) THEN "blush"
    ELSE IF score <= H(300) THEN "grin"
    ELSE "hearts"

\* getSentimentEmoji of S2 with the cut point 0.5 written as 1
getSentimentEmoji_S2_WideBand(score) ==
    IF score = 0 THEN "neutral_face"
    ELSE IF score < 0
         THEN IF score <= H(-300) THEN "cursing"
              ELSE IF score <= H(-150) THEN "pouting"
              ELSE IF score <= H(-50) THEN "angry"
              ELSE "confused"
         ELSE IF score <= H(10) THEN "slight_smile"
              ELSE IF score <= H(100) THEN "relieved"
              ELSE IF score <= H(150) THEN "blush"
              ELSE IF score <= H(300) THEN "grin"
              ELSE "hearts"

\* getSentimentEmoji of S2
getSentimentEmoji_S2(score) ==
    IF score = 0 THEN "neutral_face"
    ELSE IF score < 0
         THEN IF score <= H(-300) THEN "cursing"
              ELSE IF score <= H(-150) THEN "pouting"
              ELSE IF score <= H(-50) THEN "angry"
              ELSE "confused"
         ELSE IF score <= H(10) THEN "slight_smile"
              ELSE IF score <= H(50) THEN "relieved"
              ELSE IF score <= H(150) THEN "blush"
              ELSE IF score <= H(300) THEN "grin"
              ELSE "hearts"

-----------------------------------------------------------------------------
(* ResponseComposer: score formatting. A string is a sequence of characters. *)

DigitChars == <<"0", "1", "2", "3", "4", "5", "6", "7", "8", "9">>

RECURSIVE NatToChars(_)
NatToChars(n) ==
    IF n < 10 THEN <<DigitChars[n + 1]>>
    ELSE NatToChars(n \div 10) \o <<DigitChars[(n % 10) + 1]>>

Abs(x) == IF x < 0 THEN -x ELSE x

\* Number.prototype.toFixed(2): the sign "-" for x < 0, then the integer n with
\* n / 100 closest to |x| (the larger n on a tie), written with two decimals.
toFixed2(score) ==
    LET a == Abs(score)
        n == (2 * a + SubSteps) \div (2 * SubSteps)
    IN  (IF score < 0 THEN <<"-">> ELSE <<>>)
        \o NatToChars(n \div 100)
        \o <<".">>
        \o <<DigitChars[((n \div 10) % 10) + 1], DigitChars[(n % 10) + 1]>>

AllZeros(s, from) == \A j \in from..Len(s) : s[j] = "0"

\* whether /\.?0+$/ matches s starting at position i
StripMatchesAt(s, i) ==
    \/ /\ s[i] = "."
       /\ i < Len(s)
       /\ AllZeros(s, i + 1)
    \/ AllZeros(s, i)

\* s.replace(/\.?0+$/, ''): the leftmost match is removed
ReplaceTrailingZeros(s) ==
    IF \E i \in 1..Len(s) : StripMatchesAt(s, i)
    THEN LET i == CHOOSE k \in 1..Len(s) :
                    /\ StripMatchesAt(s, k)
                    /\ \A j \in 1..(k-1) : ~StripMatchesAt(s, j)
         IN  SubSeq(s, 1, i - 1)
    ELSE s

\* formatScore of S1
formatScore(score) ==
    (IF score >= 0 THEN <<"+">> ELSE <<>>) \o ReplaceTrailingZeros(toFixed2(score))

\* const formattedScore = score.toFixed(2) of S2
formattedScore_S2(score) == toFixed2(score)

-----------------------------------------------------------------------------
(* ResponseComposer: variant pools. A phrase is named by its pool and its
   position in the pool; a text fragment is a sequence of phrases (an array
   interpolated into a template string is all its elements, comma-joined). *)

Pool(name, n) == [i \in 1..n |-> [pool |-> name, item |-> i]]

neutral == Pool("neutral", 7)
slightlyNegative == Pool("slightlyNegative", 8)
moderatelyNegative == Pool("moderatelyNegative", 8)
veryNegative == Pool("veryNegative", 8)
extremelyNegative == Pool("extremelyNegative", 8)
slightlyPositive == Pool("slightlyPositive", 8)
moderatelyPositive == Pool("moderatelyPositive", 8)
veryPositive == Pool("veryPositive", 8)
extremelyPositive == Pool("extremelyPositive", 8)

extremelyNegativeSuggestions == Pool("extremelyNegativeSuggestions", 10)
veryNegativeSuggestions == Pool("veryNegativeSuggestions", 10)
moderatelyNegativeSuggestions == Pool("moderatelyNegativeSuggestions", 10)
slightlyNegativeSuggestions == Pool("slightlyNegativeSuggestions", 10)
neutralSuggestions == Pool("neutralSuggestions", 10)
slightlyPositiveSuggestions == Pool("slightlyPositiveSuggestions", 10)
moderatelyPositiveSuggestions == Pool("moderatelyPositiveSuggestions", 10)
veryPositiveSuggestions == Pool("veryPositiveSuggestions", 10)
extremelyPositiveSuggestions == Pool("extremelyPositiveSuggestions", 10)

\* values of Math.random(), as numerators over RandDenominator
RandomValues ==
    {(k * (RandDenominator - 1)) \div (RandGrid - 1) : k \in 0..(RandGrid - 1)}

\* what reading an array outside its indices gives
Undefined == [pool |-> "undefined", item |-> 0]

\* the index rounded up instead of down
RandomIndex_Ceil(array, r) ==
    (r * Len(array) + RandDenominator - 1) \div RandDenominator

\* Math.floor(Math.random() * array.length)
RandomIndex(array, r) == (r * Len(array)) \div RandDenominator

\* array[Math.floor(Math.random() * array.length)], as the fragment it prints
getRandomArrayItem(array, r) ==
    LET i == RandomIndex(array, r)
    IN  IF i \in 0..(Len(array) - 1) THEN << array[i + 1] >> ELSE << Undefined >>

getSentimentMessage(score, r) ==
    IF score = 0 THEN getRandomArrayItem(neutral, r)
    ELSE IF score < 0
         THEN IF score <= H(-300) THEN getRandomArrayItem(extremelyNegative, r)
              ELSE IF score <= H(-150) THEN getRandomArrayItem(veryNegative, r)
              ELSE IF score <= H(-50) THEN getRandomArrayItem(moderatelyNegative, r)
              ELSE getRandomArrayItem(slightlyNegative, r)
         ELSE IF score >= H(300) THEN getRandomArrayItem(extremelyPositive, r)
              ELSE IF score >= H(150) THEN getRandomArrayItem(veryPositive, r)
              ELSE IF score >= H(50) THEN getRandomArrayItem(moderatelyPositive, r)
              ELSE getRandomArrayItem(slightlyPositive, r)

\* at score 0 the array itself is returned, and printed whole
getSentimentSuggestion(score, r) ==
    IF score = 0 THEN neutralSuggestions
    ELSE IF score < 0
         THEN IF score <= H(-300) THEN getRandomArrayItem(extremelyNegativeSuggestions, r)
              ELSE IF score <= H(-150) THEN getRandomArrayItem(veryNegativeSuggestions, r)
              ELSE IF score <= H(-50) THEN getRandomArrayItem(moderatelyNegativeSuggestions, r)
              ELSE getRandomArrayItem(slightlyNegativeSuggestions, r)
         ELSE IF score >= H(300) THEN getRandomArrayItem(extremelyPositiveSuggestions, r)
              ELSE IF score >= H(150) THEN getRandomArrayItem(veryPositiveSuggestions, r)
              ELSE IF score >= H(50) THEN getRandomArrayItem(moderatelyPositiveSuggestions, r)
              ELSE getRandomArrayItem(slightlyPositiveSuggestions, r)

\* the message pool and the suggestion pool written for each category of S2
\* (the comment above each array in the source)
MessagePoolOf(label) ==
    CASE label = "extremely negative" -> extremelyNegative
      [] label = "very negative"      -> veryNegative
      [] label = "negative"           -> moderatelyNegative
      [] label = "slightly negative"  -> slightlyNegative
      [] label = "neutral"            -> neutral
      [] label = "slightly positive"  -> slightlyPositive
      [] label = "positive"           -> moderatelyPositive
      [] label = "very positive"      -> veryPositive
      [] label = "extremely positive" -> extremelyPositive

SuggestionPoolOf(label) ==
    CASE label = "extremely negative" -> extremelyNegativeSuggestions
      [] label = "very negative"      -> veryNegativeSuggestions
      [] label = "negative"           -> moderatelyNegativeSuggestions
      [] label = "slightly negative"  -> slightlyNegativeSuggestions
      [] label = "neutral"            -> neutralSuggestions
      [] label = "slightly positive"  -> slightlyPositiveSuggestions
      [] label = "positive"           -> moderatelyPositiveSuggestions
      [] label = "very positive"      -> veryPositiveSuggestions
      [] label = "extremely positive" -> extremelyPositiveSuggestions

-----------------------------------------------------------------------------
(* ResponseComposer: assembly. A reply is the record of its fragments. *)

\* `${emoji} Hey @${username}! ${message} ${detail} ${suggestion}` of S1:
\* one fixed (message, detail, suggestion) triple per category
generateSentimentResponse_S1(username, score) ==
    LET sentiment == analyzeSentiment(SENTIMENT_CATEGORIES_S1, score)
    IN  [ kind       |-> "analysis",
          emoji      |-> getSentimentEmoji_S1(score),
          handle     |-> username,
          message    |-> << [pool |-> sentiment, item |-> 1] >>,
          score      |-> formatScore(score),
          label      |-> IF sentiment = "neutral" THEN "perfectly balanced" ELSE sentiment,
          suggestion |-> << [pool |-> sentiment, item |-> 2] >> ]

\* the composer with the emoji drawn at random as well
generateSentimentResponse_S2_RandomEmoji(username, score, r1, r2) ==
    [ kind       |-> "analysis",
      emoji      |-> IF r1 = 0 THEN getSentimentEmoji_S2(score) ELSE "sparkles",
      handle     |-> username,
      message    |-> getSentimentMessage(score, r1),
      score      |-> formattedScore_S2(score),
      label      |-> analyzeSentiment_S2(score),
      suggestion |-> getSentimentSuggestion(score, r2) ]

\* `${emoji} Hey @${username}! ${message} Your sentiment score is
\*  ${formattedScore} (${sentiment}). ${suggestion}` of S2
generateSentimentResponse_S2(username, score, r1, r2) ==
    [ kind       |-> "analysis",
      emoji      |-> getSentimentEmoji_S2(score),
      handle     |-> username,
      message    |-> getSentimentMessage(score, r1),
      score      |-> formattedScore_S2(score),
      label      |-> analyzeSentiment_S2(score),
      suggestion |-> getSentimentSuggestion(score, r2) ]

\* emoji of the fixed responses of P0, I1, I2 ('very nice' differs in I1)
EmojiOfCategory(v, sentiment) ==
    CASE sentiment = "very mean" -> "pouting"
      [] sentiment = "mean"      -> "frown"
      [] sentiment = "neutral"   -> "neutral_face"
      [] sentiment = "nice"      -> "slight_smile"
      [] sentiment = "very nice" -> IF v = "I1" THEN "hearts" ELSE "grin"

\* `${emoji} Hey @${username}! ${message} ${suggestion}` of P0, I1, I2; the
\* message names postCount, no score is printed
generateSentimentResponse_I(v, username, sentiment, postCount) ==
    [ kind       |-> "analysis",
      emoji      |-> EmojiOfCategory(v, sentiment),
      handle     |-> username,
      message    |-> << [pool |-> sentiment, item |-> 1] >>,
      postCount  |-> postCount,
      label      |-> sentiment,
      suggestion |-> << [pool |-> sentiment, item |-> 2] >> ]

-----------------------------------------------------------------------------
(* ResponseComposer: the reply string, as the sequence of the parts the
   template literal interpolates and the spaces it writes between them. *)

Space == [part |-> "space"]
Comma == [part |-> "comma"]

\* String(value) of an interpolated phrase value: a string is itself, an array
\* is its elements joined by ','
RECURSIVE Interpolate(_, _, _)
Interpolate(part, phrases, i) ==
    IF i > Len(phrases) THEN <<>>
    ELSE (IF i > 1 THEN <<Comma>> ELSE <<>>)
         \o <<[part |-> part, phrase |-> phrases[i]]>>
         \o Interpolate(part, phrases, i + 1)

\* `${emoji} Hey @${username}!` and the space after it
replyHead(reply) ==
    << [part |-> "emoji", emoji |-> reply.emoji], Space,
       [part |-> "greeting", handle |-> reply.handle], Space >>

\* `${emoji} Hey @${username}! ${message} ${detail} ${suggestion}` of S1 and
\* `... ${message} Your sentiment score is ${formattedScore} (${sentiment}).
\*  ${suggestion}` of S2
replyText_S(reply) ==
    replyHead(reply)
    \o Interpolate("message", reply.message, 1)
    \o << Space,
          [part |-> "detail", score |-> reply.score, label |-> reply.label],
          Space >>
    \o Interpolate("suggestion", reply.suggestion, 1)

\* `${emoji} Hey @${username}! ${message} ${suggestion}` of P0, I1, I2, where
\* the message names postCount
replyText_I(reply) ==
    replyHead(reply)
    \o << [part |-> "message", phrase |-> reply.message[1],
           postCount |-> reply.postCount], Space >>
    \o Interpolate("suggestion", reply.suggestion, 1)

replyText(reply) ==
    IF "postCount" \in DOMAIN reply THEN replyText_I(reply) ELSE replyText_S(reply)

-----------------------------------------------------------------------------
(* Specification SpecCore: one call of a classifier or of a composer, for
   every score of the grid. *)

Handles == {"alice.test", "bob.test"}

NoOutput == [kind |-> "none"]

\* analyzeSentiment(score) over one of the tables
ClassifyTable(name) ==
    /\ cphase = "input"
    /\ cphase' = "classified"
    /\ ctable' = name
    /\ cout' = [ kind     |-> "category",
                 category |-> analyzeSentiment(TableOf(name), cscore),
                 found    |-> FindIndex(TableOf(name), cscore) # 0 ]
    /\ UNCHANGED <<cscore, ctexts, chandle, botVars>>

\* analyzeSentiment(score) of S2
ClassifyBranching ==
    /\ cphase = "input"
    /\ cphase' = "classified"
    /\ ctable' = "S2"
    /\ cout' = [ kind     |-> "category",
                 category |-> analyzeSentiment_S2(cscore),
                 found    |-> TRUE ]
    /\ UNCHANGED <<cscore, ctexts, chandle, botVars>>

\* generateSentimentResponse(username, score) of S1
ComposeFixed(username) ==
    /\ cphase = "input"
    /\ cphase' = "composed"
    /\ ctable' = "S1"
    /\ cout' = generateSentimentResponse_S1(username, cscore)
    /\ chandle' = username
    /\ UNCHANGED <<cscore, ctexts, botVars>>

\* generateSentimentResponse(username, score) of S2, with the two values
\* Math.random() returns
ComposeRandom(username, r1, r2) ==
    /\ cphase = "input"
    /\ cphase' = "composed"
    /\ ctable' = "S2"
    /\ cout' = generateSentimentResponse_S2(username, cscore, r1, r2)
    /\ chandle' = username
    /\ UNCHANGED <<cscore, ctexts, botVars>>

\* postCount: number = 100
DefaultPostCount == 100

\* the tables of the composers that take the category
CategoryComposers == {"P0", "I1", "I2"}

\* generateSentimentResponse(username, analyzeSentiment(score)) of P0, I1, I2
ComposeByCategory(v, username) ==
    /\ cphase = "input"
    /\ cphase' = "composed"
    /\ ctable' = v
    /\ chandle' = username
    /\ cout' = generateSentimentResponse_I(v, username,
                   analyzeSentiment(TableOf(v), cscore), DefaultPostCount)
    /\ UNCHANGED <<cscore, ctexts, botVars>>

\* scores at which two calls are compared: every multiple of 0.05 of the grid
TwiceScores == {s \in Scores : s % H(5) = 0}

\* generateSentimentResponse(username, score) of S2 called twice with the same
\* arguments; Math.random() returns r1, r2 in the first call and q1, q2 in
\* the second
ComposeTwice(username, r1, r2, q1, q2) ==
    /\ cphase = "input"
    /\ cscore \in TwiceScores
    /\ cphase' = "composedTwice"
    /\ ctable' = "S2"
    /\ cout' = [ kind   |-> "pair",
                 draws1 |-> <<r1, r2>>,
                 draws2 |-> <<q1, q2>>,
                 first  |-> generateSentimentResponse_S2(username, cscore, r1, r2),
                 second |-> generateSentimentResponse_S2(username, cscore, q1, q2) ]
    /\ chandle' = username
    /\ UNCHANGED <<cscore, ctexts, botVars>>

BotParked ==
    /\ version = "I1"
    /\ mainpc = "off"
    /\ alive = TRUE
    /\ categories = SENTIMENT_CATEGORIES_I1
    /\ pc = [m \in 1..MaxMentions |-> "idle"]
    /\ user = [m \in 1..MaxMentions |-> "none"]
    /\ posts = [m \in 1..MaxMentions |-> <<>>]
    /\ localScore = [m \in 1..MaxMentions |-> 0]
    /\ userSentiment = [m \in 1..MaxMentions |-> "none"]
    /\ sent = [m \in 1..MaxMentions |-> <<>>]

InitCore ==
    /\ cphase = "input"
    /\ cscore \in Scores
    /\ ctexts = <<>>
    /\ chandle = "none"
    /\ ctable = "none"
    /\ cout = NoOutput
    /\ BotParked

NextCore ==
    \/ \E name \in TableNames : ClassifyTable(name)
    \/ ClassifyBranching
    \/ \E username \in Handles : ComposeFixed(username)
    \/ \E v \in CategoryComposers, username \in Handles : ComposeByCategory(v, username)
    \/ \E username \in Handles, r1 \in RandomValues, r2 \in RandomValues :
          ComposeRandom(username, r1, r2)
    \/ \E username \in Handles, r1 \in RandomValues, r2 \in RandomValues,
          q1 \in RandomValues, q2 \in RandomValues :
          ComposeTwice(username, r1, r2, q1, q2)

SpecCore == InitCore /\ [][NextCore]_vars

-----------------------------------------------------------------------------
(* ScoreAggregator. A text is modelled by the comparative score the lexicon
   analyzer gives it; '' has comparative 0. *)

(* Arithmetic. A number is a whole count of grid units with at most
   MantissaBits significant binary digits; every sum and quotient is rounded
   to the nearest such number, ties to the even mantissa (IEEE 754
   round-to-nearest-even). *)

RECURSIVE Pow2(_)
Pow2(n) == IF n = 0 THEN 1 ELSE 2 * Pow2(n - 1)

\* below this magnitude every whole count of grid units is a number
MantissaLimit == Pow2(MantissaBits)

\* distance between neighbouring numbers at magnitude a >= 0
RECURSIVE Spacing(_)
Spacing(a) == IF a < MantissaLimit THEN 1 ELSE 2 * Spacing(a \div 2)

\* the integer nearest to a / d for a >= 0, d > 0, ties to the even one
RoundDiv(a, d) ==
    LET q == a \div d
        r == a % d
    IN  IF 2 * r < d THEN q
        ELSE IF 2 * r > d THEN q + 1
        ELSE IF q % 2 = 0 THEN q ELSE q + 1

\* x rounded to the nearest number
Fl(x) ==
    LET a == Abs(x)
        u == Spacing(a)
    IN  (IF x < 0 THEN -1 ELSE 1) * u * RoundDiv(a, u)

\* sum + score
FlAdd(a, b) == Fl(a + b)

\* a / n for a count n > 0
FlDiv(a, n) ==
    LET m == Abs(a)
        u == Spacing(m \div n)
    IN  (IF a < 0 THEN -1 ELSE 1) * u * RoundDiv(m, n * u)

\* texts.map(comparative).reduce((sum, score) => sum + score, 0)
RECURSIVE SumFrom(_, _, _)
SumFrom(texts, i, sum) ==
    IF i > Len(texts) THEN sum ELSE SumFrom(texts, i + 1, FlAdd(sum, texts[i]))

\* the aggregator returning the sum without dividing by the count
analyzeSentimentScore_NoAverage(texts) ==
    IF Len(texts) > 0 THEN SumFrom(texts, 1, 0) ELSE 0

\* analyzeSentimentScore(texts)
analyzeSentimentScore(texts) ==
    IF Len(texts) > 0 THEN FlDiv(SumFrom(texts, 1, 0), Len(texts)) ELSE 0

-----------------------------------------------------------------------------
(* What a fetch returns *)

\* comparative scores of the texts a fetch can return: a text without lexicon
\* words (or ''), and a positive text
PostValues == {0, H(50)}

RECURSIVE SeqsUpTo(_, _)
SeqsUpTo(S, n) ==
    IF n = 0 THEN {<<>>}
    ELSE LET shorter == SeqsUpTo(S, n - 1)
         IN  shorter \cup {Append(q, x) : q \in {t \in shorter : Len(t) = n - 1}, x \in S}

\* res.posts of getUserPosts: every post has a text
PostLists == SeqsUpTo(PostValues, MaxPosts)

\* record.value of listRecords: with a string text, or without one
RecordValues == {[hasText |-> TRUE, comparative |-> c] : c \in PostValues}
                  \cup {[hasText |-> FALSE, comparative |-> 0]}
RecordLists == SeqsUpTo(RecordValues, MaxPosts)

\* the map written as a filter: records without a string text are dropped
RECURSIVE TextsOfRecords_Dropping(_)
TextsOfRecords_Dropping(records) ==
    IF records = <<>> THEN <<>>
    ELSE (IF Head(records).hasText THEN <<Head(records).comparative>> ELSE <<>>)
         \o TextsOfRecords_Dropping(Tail(records))

\* records.map(record => ... typeof record.text === 'string' ? record.text : '')
TextsOfRecords(records) ==
    [i \in 1..Len(records) |-> IF records[i].hasText THEN records[i].comparative ELSE 0]

\* the posts arrays the record lists map to
RecordTextLists == {TextsOfRecords(records) : records \in RecordLists}

-----------------------------------------------------------------------------
(* The aggregator called alone: one list of texts, averaged as given and
   averaged again with the same texts in another order. *)

\* comparative values of single texts
AggValues == {Fl(H(40)), Fl(H(-20)), Fl(H(2)), Fl(H(400)), Fl(H(-400))}

RECURSIVE AggSeqsUpTo(_)
AggSeqsUpTo(n) ==
    IF n = 0 THEN {<<>>}
    ELSE AggSeqsUpTo(n - 1) \cup [1..n -> AggValues]

AggTexts == AggSeqsUpTo(MaxTexts)

\* the orders a list of n texts can be given in
Orders(n) == {f \in [1..n -> 1..n] : \A i, j \in 1..n : i # j => f[i] # f[j]}

Reorder(texts, f) == [i \in 1..Len(texts) |-> texts[f[i]]]

Aggregate(f) ==
    /\ cphase = "texts"
    /\ cphase' = "aggregated"
    /\ cout' = [ kind         |-> "score",
                 score        |-> analyzeSentimentScore(ctexts),
                 reordered    |-> Reorder(ctexts, f),
                 reorderScore |-> analyzeSentimentScore(Reorder(ctexts, f)) ]
    /\ UNCHANGED <<cscore, ctexts, chandle, ctable, botVars>>

\* records.map(...) followed by analyzeSentimentScore(posts), as the handler
\* that lists raw records runs them
AggregateRecords(records) ==
    /\ cphase = "texts"
    /\ cphase' = "aggregatedRecords"
    /\ cout' = [ kind    |-> "records",
                 records |-> records,
                 posts   |-> TextsOfRecords(records),
                 score   |-> analyzeSentimentScore(TextsOfRecords(records)) ]
    /\ UNCHANGED <<cscore, ctexts, chandle, ctable, botVars>>

InitAgg ==
    /\ cphase = "texts"
    /\ cscore = 0
    /\ ctexts \in AggTexts
    /\ chandle = "none"
    /\ ctable = "none"
    /\ cout = NoOutput
    /\ BotParked

NextAgg ==
    \/ \E f \in Orders(Len(ctexts)) : Aggregate(f)
    \/ \E records \in RecordLists : AggregateRecords(records)

SpecAgg == InitAgg /\ [][NextAgg]_vars

-----------------------------------------------------------------------------
(* The bot: module initialisation, main(), and the mention handler *)

Versions == {"P0", "I1", "I2", "I3S1", "I3S2"}
Mentions == 1..MaxMentions

\* mention.author.handle of the m-th mention event
AuthorOf(m) == <<"user", m>>

\* the table the running version holds (S2 has none)
TableOfVersion(v) ==
    CASE v = "P0"   -> SENTIMENT_CATEGORIES_P0
      [] v = "I1"   -> SENTIMENT_CATEGORIES_I1
      [] v = "I2"   -> SENTIMENT_CATEGORIES_I2
      [] v = "I3S1" -> SENTIMENT_CATEGORIES_S1
      [] v = "I3S2" -> <<>>

\* versions whose handler lists raw records through the PDS
ListsRecords(v) == v \in {"I1", "I3S1", "I3S2"}
\* versions whose handler body is inside try/catch
HasTryCatch(v) == v # "P0"

\* the literal post count passed to generateSentimentResponse
PostCountArgument == 100

\* analyzeSentiment(score) as the running version has it; find does not
\* change the table
Classify(v, table, s) ==
    IF v = "I3S2" THEN analyzeSentiment_S2(s) ELSE analyzeSentiment(table, s)

\* the handle interpolated into the shared-binding variant of the reply: the
\* user of the mention that arrived last
ReplyHandle_Shared(m) ==
    user[CHOOSE k \in Mentions : pc[k] # "idle" /\ \A j \in Mentions : pc[j] # "idle" => j <= k]

\* the handle interpolated into a reply of mention m: the handler's own const user
ReplyHandle(m) == user[m]

\* what the reply says: the fragments of the composed text that identify the
\* addressee and the analysis (the phrase fragments are left to SpecCore)
Summary(reply) ==
    IF "score" \in DOMAIN reply
    THEN [kind |-> reply.kind, handle |-> reply.handle, emoji |-> reply.emoji,
          label |-> reply.label, score |-> reply.score]
    ELSE [kind |-> reply.kind, handle |-> reply.handle, emoji |-> reply.emoji,
          label |-> reply.label, postCount |-> reply.postCount]

\* the text given to mention.reply in the try block
AnalysisReplies(v, handle, s, sentiment) ==
    CASE v \in {"P0", "I1", "I2"} ->
            {Summary(generateSentimentResponse_I(v, handle, sentiment, PostCountArgument))}
      [] v = "I3S1" ->
            {Summary(generateSentimentResponse_S1(handle, s))}
      [] v = "I3S2" ->
            {Summary(generateSentimentResponse_S2(handle, s, r1, r2)) :
                r1 \in RandomValues, r2 \in RandomValues}

\* `Sorry @${user}, I hit an error while analyzing your sentiment. ...`
ApologyReply(handle) == [kind |-> "apology", handle |-> handle]

\* the handler's position after the apology reply has been rejected without .catch
AfterApologyRejected_NoCatch == "rejected"

\* the handler's position after the apology reply has been rejected:
\* .catch logs the error and the handler returns
AfterApologyRejected == "doneSwallowed"

NoLocals(m) ==
    /\ posts' = [posts EXCEPT ![m] = <<>>]
    /\ localScore' = [localScore EXCEPT ![m] = 0]
    /\ userSentiment' = [userSentiment EXCEPT ![m] = "none"]

\* a rejection leaves the async handler: an unhandled rejection, which ends
\* the process or is only reported, as the runtime is configured
Unhandled(m) ==
    /\ pc' = [pc EXCEPT ![m] = "rejected"]
    /\ alive' \in BOOLEAN
    /\ NoLocals(m)
    /\ UNCHANGED sent

\* catch (error): log, then call mention.reply with the apology
Catch(m) ==
    /\ pc' = [pc EXCEPT ![m] = "apology"]
    /\ sent' = [sent EXCEPT ![m] = Append(@, ApologyReply(ReplyHandle(m)))]
    /\ NoLocals(m)
    /\ UNCHANGED alive

\* an awaited call inside the handler body rejects (or the code after it throws)
Throws(m) == IF HasTryCatch(version) THEN Catch(m) ELSE Unhandled(m)

\* the handler classifying before the score of the fetched posts is assigned
Analyse_ClassifyBeforeScore(m, texts) ==
    LET s == analyzeSentimentScore(texts)
        sentiment == Classify(version, categories, localScore[m])
    IN  /\ posts' = [posts EXCEPT ![m] = texts]
        /\ localScore' = [localScore EXCEPT ![m] = s]
        /\ userSentiment' = [userSentiment EXCEPT ![m] = sentiment]
        /\ \E reply \in AnalysisReplies(version, ReplyHandle(m), s, sentiment) :
              sent' = [sent EXCEPT ![m] = Append(@, reply)]
        /\ pc' = [pc EXCEPT ![m] = "reply"]
        /\ UNCHANGED alive

\* posts are in hand: score, classify, log, compose and call mention.reply
Analyse(m, texts) ==
    LET s == analyzeSentimentScore(texts)
        sentiment == Classify(version, categories, s)
    IN  /\ posts' = [posts EXCEPT ![m] = texts]
        /\ localScore' = [localScore EXCEPT ![m] = s]
        /\ userSentiment' = [userSentiment EXCEPT ![m] = sentiment]
        /\ \E reply \in AnalysisReplies(version, ReplyHandle(m), s, sentiment) :
              sent' = [sent EXCEPT ![m] = Append(@, reply)]
        /\ pc' = [pc EXCEPT ![m] = "reply"]
        /\ UNCHANGED alive

\* if (!username || !password) throw ...
CheckCredentials ==
    /\ mainpc = "start"
    /\ \E set \in BOOLEAN : mainpc' = IF set THEN "login" ELSE "exited"
    /\ UNCHANGED <<version, alive, categories, pc, user, posts, localScore, userSentiment, sent,
                   coreVars>>

\* await bot.login(...) settles; on success the error and mention handlers
\* are registered, on failure main() rejects into console.error
LoginSettles ==
    /\ mainpc = "login"
    /\ \E ok \in BOOLEAN : mainpc' = IF ok THEN "listening" ELSE "loginFailed"
    /\ UNCHANGED <<version, alive, categories, pc, user, posts, localScore, userSentiment, sent,
                   coreVars>>

\* the mention handler registered before bot.login is awaited
Mention_RegisteredBeforeLogin(m) ==
    /\ mainpc \in {"login", "loginFailed", "listening"} /\ alive
    /\ pc[m] = "idle"
    /\ \A k \in Mentions : k < m => pc[k] # "idle"
    /\ user' = [user EXCEPT ![m] = AuthorOf(m)]
    /\ pc' = [pc EXCEPT ![m] = IF ListsRecords(version) THEN "getProfile" ELSE "getUserPosts"]
    /\ UNCHANGED <<version, mainpc, alive, categories, posts, localScore, userSentiment, sent,
                   coreVars>>

\* a mention event: the handler starts and runs to its first await
Mention(m) ==
    /\ mainpc = "listening" /\ alive
    /\ pc[m] = "idle"
    /\ \A k \in Mentions : k < m => pc[k] # "idle"
    /\ user' = [user EXCEPT ![m] = AuthorOf(m)]
    /\ pc' = [pc EXCEPT ![m] = IF ListsRecords(version) THEN "getProfile" ELSE "getUserPosts"]
    /\ UNCHANGED <<version, mainpc, alive, categories, posts, localScore, userSentiment, sent,
                   coreVars>>

\* await bot.getProfile(user) settles
GetProfileSettles(m) ==
    /\ alive /\ pc[m] = "getProfile"
    /\ \E ok \in BOOLEAN :
          IF ok
          THEN /\ pc' = [pc EXCEPT ![m] = "fetchRepo"]
               /\ UNCHANGED <<alive, posts, localScore, userSentiment, sent>>
          ELSE Throws(m)
    /\ UNCHANGED <<version, mainpc, categories, user, coreVars>>

\* await fetch(`https://plc.directory/${did}`) settles
FetchRepoSettles(m) ==
    /\ alive /\ pc[m] = "fetchRepo"
    /\ \E ok \in BOOLEAN :
          IF ok
          THEN /\ pc' = [pc EXCEPT ![m] = "listRecords"]
               /\ UNCHANGED <<alive, posts, localScore, userSentiment, sent>>
          ELSE Throws(m)
    /\ UNCHANGED <<version, mainpc, categories, user, coreVars>>

\* await fetch(`${pdsUrl}/xrpc/com.atproto.repo.listRecords...`) settles
ListRecordsSettles(m) ==
    /\ alive /\ pc[m] = "listRecords"
    /\ \/ \E texts \in RecordTextLists : Analyse(m, texts)
       \/ Throws(m)
    /\ UNCHANGED <<version, mainpc, categories, user, coreVars>>

\* await bot.getUserPosts(user, {limit: 100}) settles
GetUserPostsSettles(m) ==
    /\ alive /\ pc[m] = "getUserPosts"
    /\ \/ \E texts \in PostLists : Analyse(m, texts)
       \/ Throws(m)
    /\ UNCHANGED <<version, mainpc, categories, user, coreVars>>

\* await mention.reply(analysis) settles
ReplySettles(m) ==
    /\ alive /\ pc[m] = "reply"
    /\ \/ /\ pc' = [pc EXCEPT ![m] = "done"]
          /\ NoLocals(m)
          /\ UNCHANGED <<alive, sent>>
       \/ Throws(m)
    /\ UNCHANGED <<version, mainpc, categories, user, coreVars>>

\* await mention.reply(apology).catch(...) settles
ApologySettles(m) ==
    /\ alive /\ pc[m] = "apology"
    /\ \E ok \in BOOLEAN :
          /\ pc' = [pc EXCEPT ![m] = IF ok THEN "done" ELSE AfterApologyRejected]
          /\ alive' \in (IF ~ok /\ AfterApologyRejected = "rejected" THEN BOOLEAN ELSE {alive})
    /\ UNCHANGED <<version, mainpc, categories, user, posts, localScore, userSentiment, sent,
                   coreVars>>

CoreParked ==
    /\ cphase = "off"
    /\ cscore = 0
    /\ ctexts = <<>>
    /\ chandle = "none"
    /\ ctable = "none"
    /\ cout = [kind |-> "none"]

Init ==
    /\ version \in Versions
    /\ mainpc = "start"
    /\ alive = TRUE
    /\ categories = TableOfVersion(version)
    /\ pc = [m \in Mentions |-> "idle"]
    /\ user = [m \in Mentions |-> "none"]
    /\ posts = [m \in Mentions |-> <<>>]
    /\ localScore = [m \in Mentions |-> 0]
    /\ userSentiment = [m \in Mentions |-> "none"]
    /\ sent = [m \in Mentions |-> <<>>]
    /\ CoreParked

Next ==
    \/ CheckCredentials
    \/ LoginSettles
    \/ \E m \in Mentions : Mention(m)
    \/ \E m \in Mentions : GetProfileSettles(m)
    \/ \E m \in Mentions : FetchRepoSettles(m)
    \/ \E m \in Mentions : ListRecordsSettles(m)
    \/ \E m \in Mentions : GetUserPostsSettles(m)
    \/ \E m \in Mentions : ReplySettles(m)
    \/ \E m \in Mentions : ApologySettles(m)

Spec == Init /\ [][Next]_vars

-----------------------------------------------------------------------------
(* Properties of the classifier (checked under SpecCore) *)

LabelsOfVariant(name) ==
    IF name = "S2" THEN Range(SentimentCategory_S2) ELSE LabelsOfTable(TableOf(name))

\* score lies in the band of entry i: above the previous upper bound (if any)
\* and at or below its own
InBand(table, i, score) ==
    /\ \/ table[i].threshold.k = "+inf"
       \/ table[i].threshold.k = "fin" /\ score <= table[i].threshold.v
    /\ \/ i = 1
       \/ table[i-1].threshold.k = "-inf"
       \/ table[i-1].threshold.k = "fin" /\ score > table[i-1].threshold.v

BandsOf(table, score) == {i \in 1..Len(table) : InBand(table, i, score)}

StrictlyIncreasing(table) ==
    \A i \in 1..(Len(table) - 1) : ThresholdLess(table[i].threshold, table[i+1].threshold)

\* C1: in every classifier variant every finite score gets a label of the
\* variant's label set, and for a table the score lies in exactly one band of
\* the table (no gaps, no overlaps), whose label is the one returned.
C1_TotalExactlyOneBand ==
    cphase = "classified" =>
        /\ cout.category \in LabelsOfVariant(ctable)
        /\ ctable \in TableNames =>
              /\ Cardinality(BandsOf(TableOf(ctable), cscore)) = 1
              /\ \A i \in BandsOf(TableOf(ctable), cscore) :
                    cout.category = TableOf(ctable)[i].label

\* C2: every table is strictly increasing by upper bound and ends with the
\* unbounded upper bound +Infinity, so the scan finds an entry and the
\* 'neutral' fallback is not taken for a finite score.
C2_TablesEndUnbounded ==
    (cphase = "classified" /\ ctable \in TableNames) =>
        /\ StrictlyIncreasing(TableOf(ctable))
        /\ TableOf(ctable)[Len(TableOf(ctable))].threshold.k = "+inf"
        /\ cout.found

\* upper bound of entry i >= score
BoundAtLeast(table, i, score) ==
    \/ table[i].threshold.k = "+inf"
    \/ table[i].threshold.k = "fin" /\ table[i].threshold.v >= score

\* C4: the table-driven classifier returns the label of the first entry, in
\* table order, whose upper bound is >= the score; a score equal to a
\* threshold gets that threshold's category (-0.1 over the five-way table with
\* -0.25 -> mean, -0.1 -> neutral, 0.1 -> nice is 'neutral').
C4_FirstEntryAtOrAbove ==
    (cphase = "classified" /\ ctable \in TableNames) =>
        LET table == TableOf(ctable)
        IN  /\ \A i \in 1..Len(table) :
                  ( /\ BoundAtLeast(table, i, cscore)
                    /\ \A j \in 1..(i-1) : ~BoundAtLeast(table, j, cscore) )
                  => cout.category = table[i].label
            /\ \A i \in 1..Len(table) :
                  (table[i].threshold.k = "fin" /\ table[i].threshold.v = cscore)
                  => cout.category = table[i].label
            /\ (ctable = "I1" /\ cscore = H(-10)) => cout.category = "neutral"

\* witness of C4: the score -0.1, equal to a threshold, classified over a table
C4_Witness ==
    /\ cphase = "classified"
    /\ ctable = "I1"
    /\ cscore = H(-10)
    /\ cout.category = "neutral"

-----------------------------------------------------------------------------
(* Properties of the composers (checked under SpecCore) *)

\* C5: in the randomized-pool composer the message fragment is drawn from the
\* variant pool of the category printed in the reply.
C5_MessageFromCategoryPool ==
    (cphase = "composed" /\ ctable = "S2") =>
        /\ Len(cout.message) = 1
        /\ cout.message[1] \in Range(MessagePoolOf(cout.label))

\* C6: in the randomized-pool composer the suggestion fragment is exactly one
\* element of the suggestion pool of the score's category, for every score,
\* 0 included.
C6_SuggestionOneOfCategoryPool ==
    (cphase = "composed" /\ ctable = "S2") =>
        /\ Len(cout.suggestion) = 1
        /\ cout.suggestion[1] \in Range(SuggestionPoolOf(cout.label))

\* the two-decimal rendering with sign, trailing zeros and a bare decimal
\* point dropped, no integer digit dropped
ExpectedScoreText(score) ==
    LET a == Abs(score)
        n == (2 * a + SubSteps) \div (2 * SubSteps)
        whole == n \div 100
        d1 == (n \div 10) % 10
        d2 == n % 10
    IN  <<IF score < 0 THEN "-" ELSE "+">>
        \o NatToChars(whole)
        \o (IF d1 = 0 /\ d2 = 0 THEN <<>>
            ELSE IF d2 = 0 THEN <<".", DigitChars[d1 + 1]>>
            ELSE <<".", DigitChars[d1 + 1], DigitChars[d2 + 1]>>)

\* C7: the score printed by every composer that prints one has two-decimal
\* precision, a leading sign, no trailing zeros and no bare decimal point
\* (1.50 -> "+1.5", -2.00 -> "-2", 0 -> "+0", 10 -> "+10").
C7_ScoreRendering ==
    (cphase = "composed" /\ "score" \in DOMAIN cout) =>
        /\ cout.score = ExpectedScoreText(cscore)
        /\ cout.score[1] \in {"+", "-"}
        /\ cscore = H(150) => cout.score = <<"+", "1", ".", "5">>
        /\ cscore = H(-200) => cout.score = <<"-", "2">>
        /\ cscore = 0 => cout.score = <<"+", "0">>
        /\ cscore = H(1000) => cout.score = <<"+", "1", "0">>

\* the same rendering, of the composer with formatScore alone
FormatScoreRendering ==
    (cphase = "composed" /\ ctable = "S1") =>
        /\ cout.score = ExpectedScoreText(cscore)
        /\ cscore = H(150) => cout.score = <<"+", "1", ".", "5">>
        /\ cscore = H(-200) => cout.score = <<"-", "2">>
        /\ cscore = 0 => cout.score = <<"+", "0">>
        /\ cscore = H(1000) => cout.score = <<"+", "1", "0">>

-----------------------------------------------------------------------------
(* Properties of the mention handler (checked under Spec) *)

Last(q) == q[Len(q)]

ApologiesOf(m) == {i \in 1..Len(sent[m]) : sent[m][i].kind = "apology"}

\* C3: the aggregator returns exactly 0 for an empty list of texts and the
\* classifier maps 0 to 'neutral', in every version: a user with no posts is
\* classified as neutral.
C3_NoPostsIsNeutral ==
    \A m \in Mentions :
        (pc[m] = "reply" /\ posts[m] = <<>>) =>
            /\ localScore[m] = 0
            /\ userSentiment[m] = "neutral"

\* C8: in every version of the handler an error raised while resolving the
\* profile, fetching, analysing or sending the analysis reply is caught and
\* answered by one apology attempt addressed to the mention's author; no
\* rejection leaves the handler unhandled.
C8_ErrorsCaughtAndApologised ==
    \A m \in Mentions :
        /\ pc[m] # "rejected"
        /\ Cardinality(ApologiesOf(m)) <= 1
        /\ \A i \in ApologiesOf(m) : sent[m][i].handle = AuthorOf(m)

\* the apology reply of mention m has been attempted and has not been delivered
ApologyRejected(m) ==
    /\ Len(sent[m]) > 0
    /\ Last(sent[m]).kind = "apology"
    /\ pc[m] \notin {"apology", "done"}

\* C9: when sending the apology fails, the failure is swallowed: the handler
\* of that mention has returned normally, the process is alive, and the next
\* mention event is still handled.
C9_ApologyFailureSwallowed ==
    \A m \in Mentions :
        ApologyRejected(m) =>
            /\ pc[m] = "doneSwallowed"
            /\ alive
            /\ \A k \in Mentions :
                  (pc[k] = "idle" /\ \A j \in Mentions : j < k => pc[j] # "idle")
                  => ENABLED Mention(k)

\* witness of C9: the apology of the first mention was rejected and swallowed,
\* and the next mention event, not yet arrived, can be handled
C9_Witness ==
    \E m \in Mentions, k \in Mentions :
        /\ m < k
        /\ ApologyRejected(m)
        /\ pc[m] = "doneSwallowed"
        /\ pc[k] = "idle"
        /\ ENABLED Mention(k)

\* C10: with handlers interleaved at their awaits the tables stay as loaded,
\* every reply of a mention is addressed to that mention's author, and the
\* analysis reply carries the score and category of the posts fetched for
\* that mention.
C10_HandlersIsolated ==
    /\ categories = TableOfVersion(version)
    /\ \A m \in Mentions :
          /\ \A i \in 1..Len(sent[m]) : sent[m][i].handle = AuthorOf(m)
          /\ pc[m] = "reply" =>
                LET s == analyzeSentimentScore(posts[m])
                IN  /\ localScore[m] = s
                    /\ Last(sent[m]) \in
                          AnalysisReplies(version, AuthorOf(m), s,
                                          Classify(version, TableOfVersion(version), s))

\* witness of C10: two handlers in flight at once, each awaiting its analysis
\* reply, with different posts and different categories
C10_Witness ==
    \E m \in Mentions, k \in Mentions :
        /\ m # k
        /\ pc[m] = "reply" /\ pc[k] = "reply"
        /\ posts[m] # posts[k]
        /\ Last(sent[m]).label # Last(sent[k]).label

-----------------------------------------------------------------------------
(* Properties of two calls of the randomized composer (checked under SpecCore) *)

\* C11: for a fixed handle and score the emoji, the printed score and the
\* category label of the reply are the same whatever Math.random() returns,
\* and two calls that draw the same values give identical replies: only the
\* message and suggestion fragments vary.
C11_OnlyFragmentsVary ==
    cphase = "composedTwice" =>
        /\ DOMAIN cout.first = DOMAIN cout.second
        /\ \A f \in DOMAIN cout.first \ {"message", "suggestion"} :
              cout.first[f] = cout.second[f]
        /\ cout.draws1 = cout.draws2 => cout.first = cout.second

\* witness of C11: two calls with different draws, whose message and
\* suggestion differ while emoji, score and label agree
C11_Witness ==
    /\ cphase = "composedTwice"
    /\ cout.draws1 # cout.draws2
    /\ cout.first.message # cout.second.message
    /\ cout.first.suggestion # cout.second.suggestion
    /\ cout.first.emoji = cout.second.emoji
    /\ cout.first.score = cout.second.score
    /\ cout.first.label = cout.second.label

-----------------------------------------------------------------------------
(* C12 *)

RECURSIVE ExactSum(_, _)
ExactSum(texts, i) == IF i > Len(texts) THEN 0 ELSE texts[i] + ExactSum(texts, i + 1)

RECURSIVE SumAbs(_, _)
SumAbs(texts, i) == IF i > Len(texts) THEN 0 ELSE Abs(texts[i]) + SumAbs(texts, i + 1)

\* the rounding one addition or division can add at the magnitude of the texts
Ulp(texts) == Spacing(2 * SumAbs(texts, 1))

\* C12 as stated: for a non-empty list the score is exactly the sum of the
\* texts' values divided by their count, and the same in every order.
C12_ExactMeanAnyOrder ==
    (cphase = "aggregated" /\ Len(ctexts) > 0) =>
        /\ Len(ctexts) * cout.score = ExactSum(ctexts, 1)
        /\ cout.reorderScore = cout.score

\* C12 amended: for a non-empty list the score is the mean up to the rounding
\* of each addition and of the division (count * score is within count
\* roundings of the exact sum); the order of the texts changes the score by
\* no more than that rounding, and not at all for one or two texts; texts of
\* 0.4 and -0.2 give 0.1.
C12_MeanUpToRounding ==
    (cphase = "aggregated" /\ Len(ctexts) > 0) =>
        /\ Abs(Len(ctexts) * cout.score - ExactSum(ctexts, 1))
              <= Len(ctexts) * Ulp(ctexts)
        /\ Abs(cout.reorderScore - cout.score) <= 2 * Ulp(ctexts)
        /\ Len(ctexts) <= 2 => cout.reorderScore = cout.score
        /\ ctexts = <<Fl(H(40)), Fl(H(-20))>> => cout.score = Fl(H(10))

\* three texts averaged in two orders with two different results
C12_Witness ==
    /\ cphase = "aggregated"
    /\ Len(ctexts) = 3
    /\ cout.reordered # ctexts
    /\ cout.reorderScore # cout.score

-----------------------------------------------------------------------------
(* C13 *)

\* C13: when no entry of the table has a bound >= the score, the table-driven
\* classifier returns 'neutral' (find gave undefined; nothing fails).
C13_ExhaustedTableIsNeutral ==
    (cphase = "classified" /\ ctable \in TableNames) =>
        ( (\A i \in 1..Len(TableOf(ctable)) : ~BoundAtLeast(TableOf(ctable), i, cscore))
          => (cout.kind = "category" /\ ~cout.found /\ cout.category = "neutral") )

\* a score above every bound of a table has been classified
C13_Witness ==
    /\ cphase = "classified"
    /\ ctable \in {"I1", "I2"}
    /\ cscore > H(25)
    /\ \A i \in 1..Len(TableOf(ctable)) : ~BoundAtLeast(TableOf(ctable), i, cscore)
    /\ cout.category = "neutral"

-----------------------------------------------------------------------------
(* C14 *)

\* the variants whose composer looks the emoji up by score
ScoreEmojiVariants == {"S1", "S2"}

CategoryOfVariant(v, score) ==
    IF v = "S1" THEN analyzeSentiment(SENTIMENT_CATEGORIES_S1, score)
    ELSE analyzeSentiment_S2(score)

EmojiOfVariant(v, score) ==
    IF v = "S1" THEN getSentimentEmoji_S1(score) ELSE getSentimentEmoji_S2(score)

\* the (emoji, category) pairs some score of the grid gets
EmojiCategoryPairs ==
    [v \in ScoreEmojiVariants |->
        {<<EmojiOfVariant(v, t), CategoryOfVariant(v, t)>> : t \in Scores}]

\* every score with the emoji of this reply has the category of this reply
EmojiBandInsideCategoryBand ==
    \A p \in EmojiCategoryPairs[ctable] :
        p[1] = cout.emoji => p[2] = CategoryOfVariant(ctable, cscore)

\* two scores of one category with different emojis
EmojiFinerThanCategories(v) ==
    \E p, q \in EmojiCategoryPairs[v] : p[2] = q[2] /\ p[1] # q[1]

-----------------------------------------------------------------------------
(* C15 *)

\* C15: the reply is, in this order and with single spaces between them, the
\* emoji, the greeting of the handle passed in, one message fragment, the
\* detail/score fragment and one suggestion fragment.
C15_ReplyIsFiveFragmentsInOrder ==
    cphase = "composed" =>
        LET text == replyText(cout)
        IN  /\ Len(text) = 9
            /\ text[1].part = "emoji"
            /\ text[3] = [part |-> "greeting", handle |-> chandle]
            /\ text[5].part = "message"
            /\ text[7].part = "detail"
            /\ text[9].part = "suggestion"
            /\ \A i \in {2, 4, 6, 8} : text[i] = Space

-----------------------------------------------------------------------------
(* C16 (checked under Spec) *)

\* C16: where the reply names a post count, the count in the analysis reply
\* sent for a mention is the number of posts fetched and analysed for it.
C16_PostCountIsFetchedCount ==
    \A m \in Mentions :
        (pc[m] = "reply" /\ "postCount" \in DOMAIN Last(sent[m]))
        => Last(sent[m]).postCount = Len(posts[m])

-----------------------------------------------------------------------------
(* C17 (checked under SpecCore) *)

ClassifierVariants == TableNames \cup {"S2"}

\* the category order of a variant, most negative to most positive
CategoryOrder(name) ==
    IF name = "S2" THEN SentimentCategory_S2
    ELSE [i \in 1..Len(TableOf(name)) |-> TableOf(name)[i].label]

RankOf(name, label) ==
    CHOOSE i \in 1..Len(CategoryOrder(name)) : CategoryOrder(name)[i] = label

\* the rank of the category of every score of the grid
CategoryRanks ==
    [name \in ClassifierVariants |->
        [t \in Scores |->
            RankOf(name, IF name = "S2" THEN analyzeSentiment_S2(t)
                         ELSE analyzeSentiment(TableOf(name), t))]]

\* C17: in every classifier variant, for scores a <= b the category of a is
\* not later in the category order than the category of b.
C17_ClassificationMonotone ==
    (cphase = "classified" /\ ctable \in ClassifierVariants) =>
        \A a \in Scores :
            a <= cscore => CategoryRanks[ctable][a] <= RankOf(ctable, cout.category)

-----------------------------------------------------------------------------
(* C18 (checked under SpecCore) *)

AllPools ==
    { neutral, slightlyNegative, moderatelyNegative, veryNegative,
      extremelyNegative, slightlyPositive, moderatelyPositive, veryPositive,
      extremelyPositive,
      extremelyNegativeSuggestions, veryNegativeSuggestions,
      moderatelyNegativeSuggestions, slightlyNegativeSuggestions,
      neutralSuggestions, slightlyPositiveSuggestions,
      moderatelyPositiveSuggestions, veryPositiveSuggestions,
      extremelyPositiveSuggestions }

\* the phrase is an element of a non-empty pool
ReadInsidePool(phrase) ==
    /\ phrase # Undefined
    /\ \E p \in AllPools :
          Len(p) > 0 /\ \E i \in 1..Len(p) : p[i] = phrase

\* the pool the phrase was read from is indexed inside 0..length-1 by r
IndexInsidePool(phrase, r) ==
    \E p \in AllPools :
        /\ p[1].pool = phrase.pool
        /\ RandomIndex(p, r) \in 0..(Len(p) - 1)
        /\ p[RandomIndex(p, r) + 1] = phrase

\* C18: every message and suggestion fragment of a randomized-pool reply is
\* an element of a non-empty pool, never undefined, and the index computed
\* from the random value lies in 0..length-1 of the pool read.
C18_SelectionInsidePool ==
    /\ (cphase = "composed" /\ ctable = "S2") =>
          /\ \A i \in 1..Len(cout.message) : ReadInsidePool(cout.message[i])
          /\ \A i \in 1..Len(cout.suggestion) : ReadInsidePool(cout.suggestion[i])
    /\ cphase = "composedTwice" =>
          /\ IndexInsidePool(cout.first.message[1], cout.draws1[1])
          /\ IndexInsidePool(cout.second.message[1], cout.draws2[1])
          /\ cscore # 0 =>
                /\ IndexInsidePool(cout.first.suggestion[1], cout.draws1[2])
                /\ IndexInsidePool(cout.second.suggestion[1], cout.draws2[2])

\* the greatest random value has selected the last element of both pools
C18_Witness ==
    /\ cphase = "composedTwice"
    /\ cscore # 0
    /\ cout.draws1 = <<RandDenominator - 1, RandDenominator - 1>>
    /\ cout.first.message[1].item = 8
    /\ cout.first.suggestion[1].item = 10

-----------------------------------------------------------------------------
(* C19 (checked under Spec) *)

\* the awaits of the handler body, and those that fetch the posts
AwaitSteps == {"getProfile", "fetchRepo", "listRecords", "getUserPosts", "reply"}
FetchSteps == {"listRecords", "getUserPosts"}

Returned(m) == pc[m] \in {"done", "doneSwallowed"}

C19_Step ==
    HasTryCatch(version) =>
        \A m \in Mentions :
            LET attempt == Len(sent'[m]) = Len(sent[m]) + 1
            IN  /\ sent'[m] = sent[m]
                   \/ (attempt /\ SubSeq(sent'[m], 1, Len(sent[m])) = sent[m])
                /\ Len(sent'[m]) <= 2
                /\ (attempt /\ Last(sent'[m]).kind = "analysis") =>
                      /\ sent[m] = <<>>
                      /\ pc[m] \in FetchSteps
                      /\ pc'[m] = "reply"
                      /\ localScore'[m] = analyzeSentimentScore(posts'[m])
                      /\ userSentiment'[m] =
                            Classify(version, categories, localScore'[m])
                      /\ Last(sent'[m]) \in
                            AnalysisReplies(version, user[m], localScore'[m],
                                            userSentiment'[m])
                /\ (attempt /\ Last(sent'[m]).kind = "apology") =>
                      /\ pc[m] \in AwaitSteps
                      /\ pc'[m] = "apology"
                      /\ \A i \in 1..Len(sent[m]) : sent[m][i].kind = "analysis"
                /\ (pc[m] = "reply" /\ pc'[m] = "done") => sent'[m] = sent[m]
                /\ Returned(m) => (pc'[m] = pc[m] /\ sent'[m] = sent[m])

\* C19: in the try/catch handler the analysis reply is attempted first, in the
\* step after the fetch settles, with the category classified from the score
\* computed from the fetched posts; at most two replies are attempted, the
\* second an apology; an apology is attempted only as an await of the handler
\* body fails; after the analysis reply is sent nothing more is attempted.
C19_HandlerStepsInOrder == [][C19_Step]_vars

\* the analysis reply was attempted and rejected, and the apology attempted
C19_Witness ==
    \E m \in Mentions :
        /\ HasTryCatch(version)
        /\ Len(sent[m]) = 2
        /\ sent[m][1].kind = "analysis"
        /\ sent[m][2].kind = "apology"
        /\ pc[m] \in {"apology", "done", "doneSwallowed"}

-----------------------------------------------------------------------------
(* C20 (checked under SpecAgg) *)

RECURSIVE SumOfTexts(_, _)
SumOfTexts(records, i) ==
    IF i > Len(records) THEN 0
    ELSE (IF records[i].hasText THEN records[i].comparative ELSE 0)
         + SumOfTexts(records, i + 1)

\* C20: in the handler that lists raw records every fetched record gives one
\* text, '' (comparative 0) when it has no string text, so the aggregator
\* gets as many texts as records were fetched and divides the sum of the
\* records that have a text by the number of all records.
C20_TextlessRecordsCounted ==
    cphase = "aggregatedRecords" =>
        /\ Len(cout.posts) = Len(cout.records)
        /\ \A i \in 1..Len(cout.records) :
              ~cout.records[i].hasText => cout.posts[i] = 0
        /\ \A i \in 1..Len(cout.records) :
              cout.records[i].hasText => cout.posts[i] = cout.records[i].comparative
        /\ Len(cout.records) > 0 =>
              cout.score = FlDiv(Fl(SumOfTexts(cout.records, 1)), Len(cout.records))

\* a record without a text and one with a positive text, averaged over two
C20_Witness ==
    /\ cphase = "aggregatedRecords"
    /\ Len(cout.records) = 2
    /\ \E i \in 1..2 : ~cout.records[i].hasText
    /\ \E i \in 1..2 : cout.records[i].hasText /\ cout.records[i].comparative = H(50)
    /\ cout.score = H(25)

-----------------------------------------------------------------------------
(* C21 (checked under Spec) *)

\* until login has resolved no mention is being handled or has been, no reply
\* has been attempted, and no mention event can start a handler
NothingHandledBeforeLogin ==
    mainpc # "listening" =>
        \A m \in Mentions :
            /\ pc[m] = "idle"
            /\ user[m] = "none"
            /\ sent[m] = <<>>
            /\ ~ENABLED Mention(m)

\* the handlers are registered only as the awaited login resolves, and never
\* once the credential check threw or login was rejected
RegisteredOnlyByLogin ==
    /\ mainpc' = "listening" => mainpc \in {"login", "listening"}
    /\ mainpc \in {"exited", "loginFailed"} => mainpc' = mainpc

\* C21: no mention is handled and no reply is sent before login has completed
\* successfully; the handlers are registered only after bot.login resolves,
\* and never when the credentials are unset or login fails.
C21_NoMentionBeforeLogin ==
    [](NothingHandledBeforeLogin) /\ [][RegisteredOnlyByLogin]_vars

\* login was rejected: nothing is handled and no mention event can be
C21_Witness ==
    /\ mainpc = "loginFailed"
    /\ \A m \in Mentions : pc[m] = "idle" /\ sent[m] = <<>> /\ ~ENABLED Mention(m)

====
